---- MODULE Spec2Model ----
(***************************************************************************)
(* Model of src/data/app.py: a Streamlit page that loads a CSV of external *)
(* debt by year, resolves the year and debt columns, coerces and cleans    *)
(* them, filters by two sliders and builds two charts.  Streamlit runs the *)
(* whole script once per user interaction, so every action below is one    *)
(* interaction followed by the complete script run it triggers.            *)
(*                                                                         *)
(* Text (column names, CSV cells) is a tuple of one-character strings so   *)
(* that lower(), strip(), the "^Unnamed" match and numeric parsing are     *)
(* computed rather than assumed.  Cells are integer literals, empty cells  *)
(* or non-numeric text; a numeric value is [nan, v].                       *)
(***************************************************************************)
EXTENDS Integers, Sequences, FiniteSets, TLC

(* ------------------------------ bounds -------------------------------- *)
\* largest number of data rows in a CSV file with the main header
MaxRows == 3
\* largest number of data rows in a CSV file with one of the other headers
MaxRowsOther == 1

(* ------------------------------- text --------------------------------- *)
UpperAlpha == <<"A","B","C","D","E","F","G","H","I","J","K","L","M",
                "N","O","P","Q","R","S","T","U","V","W","X","Y","Z">>
LowerAlpha == <<"a","b","c","d","e","f","g","h","i","j","k","l","m",
                "n","o","p","q","r","s","t","u","v","w","x","y","z">>

\* the lower-case letter of every upper-case letter
ToLower == [c \in {UpperAlpha[i] : i \in 1..26} |->
               LowerAlpha[CHOOSE i \in 1..26 : UpperAlpha[i] = c]]

\* str.lower() on one character
LowerChar(c) == IF c \in DOMAIN ToLower THEN ToLower[c] ELSE c

\* str.lower()
Lower(s) == [i \in 1..Len(s) |-> LowerChar(s[i])]

\* str.strip(): drop leading and trailing blanks
RECURSIVE LStrip(_)
LStrip(s) == IF s # <<>> /\ Head(s) = " " THEN LStrip(Tail(s)) ELSE s
RECURSIVE RStrip(_)
RStrip(s) == IF s # <<>> /\ s[Len(s)] = " " THEN RStrip(SubSeq(s, 1, Len(s) - 1)) ELSE s
Strip(s) == RStrip(LStrip(s))

\* str.contains(r"^Unnamed")
IsUnnamed(s) ==
    /\ Len(s) >= 7
    /\ SubSeq(s, 1, 7) = <<"U","n","n","a","m","e","d">>

(* ------------------------- program constants -------------------------- *)
DEFAULT_CSV_PATH == "data/external_debt_dataset.csv"
YEAR_COL_CANDIDATES ==
    << <<"y","e","a","r">>,
       <<"Y","e","a","r">>,
       <<"r","e","f","P","e","r","i","o","d">>,
       <<"r","e","f"," ","p","e","r","i","o","d">>,
       <<"r","e","f"," ","P","e","r","i","o","d">> >>
DEBT_COL_CANDIDATES ==
    << <<"E","x","t","e","r","n","a","l","_","D","e","b","t">>,
       <<"e","x","t","e","r","n","a","l","_","d","e","b","t">>,
       <<"V","a","l","u","e">>,
       <<"E","x","t","e","r","n","a","l"," ","D","e","b","t">> >>
\* the fall-back names of lines 80-81
YEAR_FALLBACK == <<"y","e","a","r">>
DEBT_FALLBACK == <<"E","x","t","e","r","n","a","l","_","D","e","b","t">>
\* the clamp of the initial year selection, line 114
DEFAULT_FROM == 1990
DEFAULT_TO == 2024

(* ------------------------------ numbers ------------------------------- *)
NaN == [nan |-> TRUE, v |-> 0]
Num(n) == [nan |-> FALSE, v |-> n]

Digits == <<"0","1","2","3","4","5","6","7","8","9">>
DigitValue == [c \in {Digits[i] : i \in 1..10} |-> (CHOOSE i \in 1..10 : Digits[i] = c) - 1]
IsDigit(c) == c \in DOMAIN DigitValue
DigitVal(c) == DigitValue[c]

RECURSIVE ParseDigits(_, _)
ParseDigits(s, acc) ==
    IF s = <<>> THEN acc ELSE ParseDigits(Tail(s), 10 * acc + DigitVal(Head(s)))

\* pd.to_numeric(..., errors="coerce") on one cell: an optionally signed
\* integer literal parses, an empty cell or any other text becomes NaN
ToNumeric(cell) ==
    LET signed == cell # <<>> /\ Head(cell) \in {"-", "+"}
        body   == IF signed THEN Tail(cell) ELSE cell
    IN  IF body = <<>> \/ \E i \in 1..Len(body) : ~IsDigit(body[i])
        THEN NaN
        ELSE IF signed /\ Head(cell) = "-"
             THEN Num(0 - ParseDigits(body, 0))
             ELSE Num(ParseDigits(body, 0))

(* ------------------------------ helpers ------------------------------- *)
Min(S) == CHOOSE x \in S : \A y \in S : x <= y
Max(S) == CHOOSE x \in S : \A y \in S : x >= y
Range(seq) == {seq[i] : i \in 1..Len(seq)}

\* the elements of seq at the positions in keep, in order
Project(seq, keep) ==
    LET F[i \in 0..Len(seq)] ==
            IF i = 0 THEN <<>>
            ELSE IF i \in keep THEN Append(F[i - 1], seq[i]) ELSE F[i - 1]
    IN  F[Len(seq)]

(* ------------------------------ load_data ----------------------------- *)
\* load_data after a successful pd.read_csv: strip the column names, then
\* drop the columns whose stripped name starts with "Unnamed".  A row keeps
\* its RangeIndex label idx.
load_data(file) ==
    LET stripped == [i \in 1..Len(file.header) |-> Strip(file.header[i])]
        keep     == {i \in 1..Len(stripped) : ~IsUnnamed(stripped[i])}
    IN  [columns |-> Project(stripped, keep),
         rows    |-> [r \in 1..Len(file.rows) |->
                        [idx |-> r - 1, cells |-> Project(file.rows[r], keep)]]]

(* ------------------------------ find_col ------------------------------ *)
\* lookup = {c.lower(): c for c in df.columns}: a later column overwrites an
\* earlier one with the same lower-cased name
lookup(columns, key) ==
    columns[Max({i \in 1..Len(columns) : Lower(columns[i]) = key})]

\* worse variant: the first column matching any candidate wins
find_col_by_column(columns, candidates) ==
    LET hits == {i \in 1..Len(columns) :
                    \E k \in 1..Len(candidates) : Lower(candidates[k]) = Lower(columns[i])}
    IN  IF hits = {} THEN <<>> ELSE columns[Min(hits)]

\* find_col: the first candidate, in list order, whose lower-cased name is a
\* key of lookup; None (here the empty name, falsy like None) when there is none
find_col(columns, candidates) ==
    LET keys == {Lower(columns[i]) : i \in 1..Len(columns)}
        hits == {k \in 1..Len(candidates) : Lower(candidates[k]) \in keys}
    IN  IF hits = {} THEN <<>> ELSE lookup(columns, Lower(candidates[Min(hits)]))

\* find_col(...) or "<fallback>", lines 80-81
OrElse(found, fallback) == IF found = <<>> THEN fallback ELSE found

\* worse variant: "and" for "or", the error needs both columns to be absent
columns_missing_both(columns, yc, dc) ==
    yc \notin Range(columns) /\ dc \notin Range(columns)

\* YEAR_COL not in df.columns or DEBT_COL not in df.columns, line 82
columns_missing(columns, yc, dc) ==
    yc \notin Range(columns) \/ dc \notin Range(columns)

ColIndex(columns, name) == CHOOSE i \in 1..Len(columns) : columns[i] = name

(* ---------------------------- coerce and clean ------------------------ *)
\* lines 87-88: both columns through pd.to_numeric(errors="coerce")
coerce(df, yc, dc) ==
    [r \in 1..Len(df.rows) |->
        [idx  |-> df.rows[r].idx,
         year |-> ToNumeric(df.rows[r].cells[ColIndex(df.columns, yc)]),
         debt |-> ToNumeric(df.rows[r].cells[ColIndex(df.columns, dc)])]]

\* worse variant: only the year column is checked
dropna_year_only(rows) == SelectSeq(rows, LAMBDA r : ~r.year.nan)

\* dropna(subset=[YEAR_COL, DEBT_COL])
dropna(rows) == SelectSeq(rows, LAMBDA r : ~r.year.nan /\ ~r.debt.nan)

IsSortedByYear(rows) ==
    \A i, j \in 1..Len(rows) : i < j => rows[i].year.v <= rows[j].year.v

RECURSIVE Orderings(_)
Orderings(rows) ==
    IF rows = <<>> THEN {<<>>}
    ELSE UNION {{<<rows[i]>> \o p : p \in Orderings(Project(rows, (1..Len(rows)) \ {i}))} :
                   i \in 1..Len(rows)}

\* worse variant: the rows stay in file order
sort_values_none(rows) == {rows}

\* worse variant: one row per year survives
sort_values_dedup(rows) ==
    {SelectSeq(p, LAMBDA r : \A q \in Range(rows) : q.year.v = r.year.v => q.idx >= r.idx) :
        p \in {q \in Orderings(rows) : IsSortedByYear(q)}}

\* sort_values(YEAR_COL): ascending, kind="quicksort" by default, which is not
\* a stable sort: every ordering of the rows that is ascending in year is a
\* possible result
sort_values(rows) == {p \in Orderings(rows) : IsSortedByYear(p)}

(* ------------------------------ filters ------------------------------- *)
\* (max(min_year, 1990), min(max_year, 2024)), line 114
year_default(min_year, max_year) ==
    <<IF min_year > DEFAULT_FROM THEN min_year ELSE DEFAULT_FROM,
      IF max_year < DEFAULT_TO THEN max_year ELSE DEFAULT_TO>>

\* worse variant: the upper ends are exclusive
df_filt_exclusive(rows, year_range, debt_range) ==
    SelectSeq(rows, LAMBDA r :
        /\ r.year.v >= year_range[1] /\ r.year.v < year_range[2]
        /\ r.debt.v >= debt_range[1] /\ r.debt.v < debt_range[2])

\* lines 126-129: the boolean mask keeps the rows in range, in order
df_filt(rows, year_range, debt_range) ==
    SelectSeq(rows, LAMBDA r :
        /\ r.year.v >= year_range[1] /\ r.year.v <= year_range[2]
        /\ r.debt.v >= debt_range[1] /\ r.debt.v <= debt_range[2])

\* worse variant: the empty view is not noticed
empty_never(rows) == FALSE

\* df_filt.empty, line 131
empty(rows) == rows = <<>>

(* ------------------------------- inputs ------------------------------- *)
\* the header of the specification's example, with what each column holds:
\* "y" a year cell, "d" a debt cell, "x" some other text
MainHeader ==
    [header |-> << <<"V","A","L","U","E">>, <<"r","e","f","P","e","r","i","o","d">> >>,
     layout |-> <<"d", "y">>]

\* further CSV headers the file may carry
HeaderVariants ==
    { [header |-> << <<"f","o","o">>, <<"b","a","r">> >>,
       layout |-> <<"y", "d">>],
      [header |-> << <<"r","e","f","P","e","r","i","o","d">>, <<"Y","e","a","r">>, <<"V","a","l","u","e">> >>,
       layout |-> <<"x", "y", "d">>],
      [header |-> << <<" ","r","e","f"," ","P","e","r","i","o","d"," ">>,
                     <<"U","n","n","a","m","e","d",":"," ","0">>,
                     <<"e","x","t","e","r","n","a","l","_","d","e","b","t"," ">> >>,
       layout |-> <<"y", "x", "d">>],
      [header |-> << <<"Y","e","a","r">>, <<"f","o","o">> >>,
       layout |-> <<"y", "d">>],
      [header |-> << <<"f","o","o">>, <<"V","a","l","u","e">> >>,
       layout |-> <<"y", "d">>],
      [header |-> << <<"Y","E","A","R">>, <<"y","e","a","r">>, <<"E","x","t","e","r","n","a","l"," ","D","e","b","t">> >>,
       layout |-> <<"x", "y", "d">>] }

\* the (year cell, debt cell) pairs a data row may carry
RowPool ==
    { << <<"1","9","9","0">>, <<"1","0","0">> >>,
      << <<"b","a","d">>,     <<"2","0","0">> >>,
      << <<"1","9","9","1">>, <<"-","5","0">> >>,
      << <<"1","9","8","9">>, <<"1","0","0">> >>,
      << <<"1","9","9","0">>, <<>> >> }

OtherCell == <<"L","B","N">>

RowSeqs(n) == UNION {[1..k -> RowPool] : k \in 0..n}

MkFile(hv, rs) ==
    [exists |-> TRUE,
     header |-> hv.header,
     rows   |-> [r \in 1..Len(rs) |->
                    [c \in 1..Len(hv.header) |->
                        IF hv.layout[c] = "y" THEN rs[r][1]
                        ELSE IF hv.layout[c] = "d" THEN rs[r][2]
                        ELSE OtherCell]]]

Files ==
    {MkFile(MainHeader, rs) : rs \in RowSeqs(MaxRows)}
    \cup {MkFile(hv, rs) : hv \in HeaderVariants, rs \in RowSeqs(MaxRowsOther)}
NoFile == [exists |-> FALSE, header |-> <<>>, rows |-> <<>>]

MISSING_PATH == "missing.csv"
Paths == {DEFAULT_CSV_PATH, MISSING_PATH}

\* positions the debt slider can be dragged to
DebtStops == {-50, 0, 100}

(* ------------------------------- state -------------------------------- *)
VARIABLES
    fs,         \* the files on disk: path -> file
    cache,      \* st.cache_data of load_data: path -> [hit, df]
    data_path,  \* the text input "Path to your CSV"
    run         \* what the last script run computed and showed

vars == <<fs, cache, data_path, run>>

NoMessage == [kind |-> "none", text |-> "", path |-> "", roles |-> {}, names |-> <<>>]
NoChart == [built |-> FALSE, data |-> <<>>]

Blank ==
    [outcome |-> "none", message |-> NoMessage, columns |-> <<>>,
     YEAR_COL |-> <<>>, DEBT_COL |-> <<>>, df |-> <<>>,
     min_year |-> 0, max_year |-> 0, year_default |-> <<0, 0>>, year_range |-> <<0, 0>>,
     debt_min_all |-> 0, debt_max_all |-> 0, debt_range |-> <<0, 0>>,
     df_filt |-> <<>>, chart |-> NoChart, steps |-> {}]

Init ==
    /\ \E file \in Files :
          fs = [p \in Paths |-> IF p = DEFAULT_CSV_PATH THEN file ELSE NoFile]
    /\ cache = [p \in Paths |-> [hit |-> FALSE, df |-> [columns |-> <<>>, rows |-> <<>>]]]
    /\ data_path = DEFAULT_CSV_PATH
    /\ run = Blank

(* ---------------------------- one script run -------------------------- *)
\* worse variant: a failed read goes unnoticed and yields an empty frame
CanLoadAlways(path) == TRUE

\* lines 60-62, 74-75: the cached frame, or a fresh read; read_csv raises
\* when the file is not there
CanLoad(path) == cache[path].hit \/ fs[path].exists
Loaded(path) == IF cache[path].hit THEN cache[path].df ELSE load_data(fs[path])

\* the state of a slider that was drawn in the run r: its identity (bounds
\* and default) and its value; <<>> when it was not drawn
YearWidget(r) ==
    IF "sliders" \in r.steps
    THEN <<r.min_year, r.max_year, r.year_default, r.year_range>>
    ELSE <<>>
DebtWidget(r) ==
    IF "sliders" \in r.steps
    THEN <<r.debt_min_all, r.debt_max_all, r.debt_range>>
    ELSE <<>>

\* lines 113-233 on a cleaned frame
AfterClean(r1, cleaned, ysel, dsel) ==
    LET r2 == [r1 EXCEPT !.df = cleaned, !.steps = @ \cup {"clean"}]
    IN  IF cleaned = <<>>
        THEN \* line 113: min() of an empty column is NaN and int(NaN) raises
             [r2 EXCEPT !.outcome = "crashed",
                        !.message = [NoMessage EXCEPT !.kind = "exception", !.text = "ValueError"]]
        ELSE
        LET min_year == Min({cleaned[i].year.v : i \in 1..Len(cleaned)})
            max_year == Max({cleaned[i].year.v : i \in 1..Len(cleaned)})
            yd       == year_default(min_year, max_year)
            yr       == IF ysel # <<>> /\ <<ysel[1], ysel[2], ysel[3]>> = <<min_year, max_year, yd>>
                        THEN ysel[4] ELSE yd
            dmin     == Min({cleaned[i].debt.v : i \in 1..Len(cleaned)})
            dmax     == Max({cleaned[i].debt.v : i \in 1..Len(cleaned)})
            dr       == IF dsel # <<>> /\ <<dsel[1], dsel[2]>> = <<dmin, dmax>>
                        THEN dsel[3] ELSE <<dmin, dmax>>
            f        == df_filt(cleaned, yr, dr)
            r3       == [r2 EXCEPT !.min_year = min_year, !.max_year = max_year,
                                   !.year_default = yd, !.year_range = yr,
                                   !.debt_min_all = dmin, !.debt_max_all = dmax,
                                   !.debt_range = dr, !.df_filt = f,
                                   !.steps = @ \cup {"sliders", "filter"}]
        IN  IF empty(f)
            THEN \* lines 131-133
                 [r3 EXCEPT !.outcome = "warning",
                            !.message = [NoMessage EXCEPT !.kind = "warning", !.text = "No data in the selected filters"]]
            ELSE \* lines 150-228
                 [r3 EXCEPT !.outcome = "charts",
                            !.chart = [built |-> TRUE, data |-> f],
                            !.steps = @ \cup {"charts"}]

\* the results one run of the script can have for the entered path and the
\* slider states carried over from the session
Runs(path, ysel, dsel) ==
    IF ~CanLoad(path)
    THEN \* lines 76-78
         {[Blank EXCEPT !.outcome = "load_error",
                        !.message = [NoMessage EXCEPT !.kind = "error", !.text = "Couldn't load data", !.path = path]]}
    ELSE
    LET df0 == Loaded(path)
        yc  == OrElse(find_col(df0.columns, YEAR_COL_CANDIDATES), YEAR_FALLBACK)
        dc  == OrElse(find_col(df0.columns, DEBT_COL_CANDIDATES), DEBT_FALLBACK)
        r1  == [Blank EXCEPT !.columns = df0.columns, !.YEAR_COL = yc, !.DEBT_COL = dc,
                             !.steps = {"load", "resolve"}]
    IN  IF columns_missing(df0.columns, yc, dc)
        THEN \* lines 82-84
             {[r1 EXCEPT !.outcome = "schema_error",
                         !.message = [NoMessage EXCEPT !.kind = "error", !.text = "Couldn't find expected columns",
                                                       !.roles = {"Year", "Debt"}, !.names = <<yc, dc>>]]}
        ELSE IF yc \notin Range(df0.columns) \/ dc \notin Range(df0.columns)
        THEN \* df[YEAR_COL] on a column that is not there raises KeyError
             {[r1 EXCEPT !.outcome = "crashed",
                         !.message = [NoMessage EXCEPT !.kind = "exception", !.text = "KeyError"]]}
        ELSE {AfterClean(r1, cleaned, ysel, dsel) :
                 cleaned \in sort_values(dropna(coerce(df0, yc, dc)))}

Rerun(path, ysel, dsel) ==
    /\ \E r \in Runs(path, ysel, dsel) : run' = r
    /\ data_path' = path
    /\ cache' = IF CanLoad(path)
                THEN [cache EXCEPT ![path] = [hit |-> TRUE, df |-> Loaded(path)]]
                ELSE cache
    /\ UNCHANGED fs

(* ------------------------------ actions ------------------------------- *)
\* the page is opened: first run with every widget at its default
Open ==
    /\ run.outcome = "none"
    /\ Rerun(data_path, <<>>, <<>>)

\* another path is typed into the text input
ChangePath ==
    /\ run.outcome # "none"
    /\ \E p \in Paths \ {data_path} : Rerun(p, YearWidget(run), DebtWidget(run))

\* the selections a drawn slider can be dragged to: inside its bounds,
\* ordered, and other than the one it shows
YearMoves ==
    IF "sliders" \notin run.steps THEN {}
    ELSE {m \in (run.min_year..run.max_year) \X (run.min_year..run.max_year) :
             m[1] <= m[2] /\ m # run.year_range}
DebtMoves ==
    IF "sliders" \notin run.steps THEN {}
    ELSE LET stops == {d \in DebtStops : run.debt_min_all <= d /\ d <= run.debt_max_all}
         IN  {m \in stops \X stops : m[1] <= m[2] /\ m # run.debt_range}

\* the year slider is dragged to m
MoveYearSlider ==
    \E m \in YearMoves :
       Rerun(data_path, <<run.min_year, run.max_year, run.year_default, m>>, DebtWidget(run))

\* the debt slider is dragged to m
MoveDebtSlider ==
    \E m \in DebtMoves :
       Rerun(data_path, YearWidget(run), <<run.debt_min_all, run.debt_max_all, m>>)

Next == Open \/ ChangePath \/ MoveYearSlider \/ MoveDebtSlider

Spec == Init /\ [][Next]_vars

(* ------------------------- what the claims read ----------------------- *)
\* the file the last run was given, and the cell of its row r in the column
\* whose stripped header is name
InputFile == fs[data_path]
RawColumn(name) ==
    CHOOSE c \in 1..Len(InputFile.header) : Strip(InputFile.header[c]) = name
InputCell(r, name) == InputFile.rows[r][RawColumn(name)]

\* the row labels of the input rows whose year and debt cells both parse
ValidLabels ==
    {r - 1 : r \in {q \in 1..Len(InputFile.rows) :
                       /\ ~ToNumeric(InputCell(q, run.YEAR_COL)).nan
                       /\ ~ToNumeric(InputCell(q, run.DEBT_COL)).nan}}

InSelection(r) ==
    /\ run.year_range[1] <= r.year.v /\ r.year.v <= run.year_range[2]
    /\ run.debt_range[1] <= r.debt.v /\ r.debt.v <= run.debt_range[2]

PositionIn(rows, r) == CHOOSE i \in 1..Len(rows) : rows[i] = r

\* the candidates that match some column, ignoring case
Matching(candidates) ==
    {k \in 1..Len(candidates) :
        \E c \in Range(run.columns) : Lower(c) = Lower(candidates[k])}

Unresolved ==
    (IF Matching(YEAR_COL_CANDIDATES) = {} THEN {"Year"} ELSE {})
    \cup (IF Matching(DEBT_COL_CANDIDATES) = {} THEN {"Debt"} ELSE {})

(* ------------------------------- claims ------------------------------- *)
\* C1: with lo <= hi for both ranges, the filtered view holds exactly the
\* cleaned rows whose year and debt lie in the inclusive ranges, each once and
\* in the order of the cleaned set, and filtering the view again changes nothing
C1_FilterExactOrderedIdempotent ==
    ( /\ "filter" \in run.steps
      /\ run.year_range[1] <= run.year_range[2]
      /\ run.debt_range[1] <= run.debt_range[2] )
    => /\ \A r \in Range(run.df) : r \in Range(run.df_filt) <=> InSelection(r)
       /\ Range(run.df_filt) \subseteq Range(run.df)
       /\ \A i, j \in 1..Len(run.df_filt) :
             i < j => PositionIn(run.df, run.df_filt[i]) < PositionIn(run.df, run.df_filt[j])
       /\ df_filt(run.df_filt, run.year_range, run.debt_range) = run.df_filt

\* a view of two or more rows that leaves out some cleaned row
C1_Witness ==
    /\ run.outcome = "charts"
    /\ run.year_range[1] <= run.year_range[2]
    /\ Len(run.df_filt) >= 2
    /\ Len(run.df_filt) < Len(run.df)

\* C2: the years of the cleaned set never decrease from one row to the next
C2_CleanedYearsNonDecreasing ==
    "clean" \in run.steps
    => \A i \in 1..Len(run.df) - 1 : run.df[i].year.v <= run.df[i + 1].year.v

\* a cleaned set in which the sort moved a later input row in front of an earlier one
C2_Witness ==
    /\ "clean" \in run.steps
    /\ \E i, j \in 1..Len(run.df) :
          i < j /\ run.df[i].idx > run.df[j].idx /\ run.df[i].year.v < run.df[j].year.v

\* C3: a cell that does not parse removes its own row and nothing else: the run
\* goes on to clean whenever both columns resolve, every cleaned row has a year
\* and a debt that are numbers, the cleaned rows are exactly the input rows whose
\* two cells parse, with the parsed values; rows (1990,100), (bad,200),
\* (1991,-50) clean to (1990,100) then (1991,-50)
C3_OnlyBadRowsDisappear ==
    /\ ( "resolve" \in run.steps /\ Unresolved = {} ) => "clean" \in run.steps
    /\ "clean" \in run.steps
       => /\ \A i \in 1..Len(run.df) :
                /\ ~run.df[i].year.nan /\ ~run.df[i].debt.nan
                /\ run.df[i].year = ToNumeric(InputCell(run.df[i].idx + 1, run.YEAR_COL))
                /\ run.df[i].debt = ToNumeric(InputCell(run.df[i].idx + 1, run.DEBT_COL))
          /\ {run.df[i].idx : i \in 1..Len(run.df)} = ValidLabels
          /\ ( [r \in 1..Len(InputFile.rows) |->
                   <<InputCell(r, run.YEAR_COL), InputCell(r, run.DEBT_COL)>>]
               = << << <<"1","9","9","0">>, <<"1","0","0">> >>,
                    << <<"b","a","d">>,     <<"2","0","0">> >>,
                    << <<"1","9","9","1">>, <<"-","5","0">> >> >> )
             => run.df = << [idx |-> 0, year |-> Num(1990), debt |-> Num(100)],
                            [idx |-> 2, year |-> Num(1991), debt |-> Num(0 - 50)] >>

\* the example of the claim: the middle row is lost, the other two remain
C3_Witness ==
    /\ "clean" \in run.steps
    /\ Len(InputFile.rows) = 3
    /\ InputCell(2, run.YEAR_COL) = <<"b","a","d">>
    /\ InputCell(2, run.DEBT_COL) = <<"2","0","0">>
    /\ run.df = << [idx |-> 0, year |-> Num(1990), debt |-> Num(100)],
                   [idx |-> 2, year |-> Num(1991), debt |-> Num(0 - 50)] >>

\* C4: for either role, when some candidate matches a column ignoring case, the
\* resolved name is a column of the file and equals, ignoring case, the earliest
\* matching candidate of the list
C4_EarliestCandidateWins ==
    "resolve" \in run.steps
    => /\ Matching(YEAR_COL_CANDIDATES) # {}
          => /\ run.YEAR_COL \in Range(run.columns)
             /\ Lower(run.YEAR_COL) = Lower(YEAR_COL_CANDIDATES[Min(Matching(YEAR_COL_CANDIDATES))])
       /\ Matching(DEBT_COL_CANDIDATES) # {}
          => /\ run.DEBT_COL \in Range(run.columns)
             /\ Lower(run.DEBT_COL) = Lower(DEBT_COL_CANDIDATES[Min(Matching(DEBT_COL_CANDIDATES))])

\* a file in which a column matching a later year candidate stands before the
\* column matching the earliest one, and the latter is resolved
C4_Witness ==
    /\ "resolve" \in run.steps
    /\ \E i, j \in 1..Len(run.columns) :
          /\ i < j
          /\ run.columns[j] = run.YEAR_COL
          /\ Lower(run.columns[i]) # Lower(run.YEAR_COL)
          /\ \E k \in Matching(YEAR_COL_CANDIDATES) :
                Lower(YEAR_COL_CANDIDATES[k]) = Lower(run.columns[i])

C6_LoadFailureReportedAndHalts ==
    ( run.outcome # "none" /\ ~fs[data_path].exists )
    => /\ run.outcome = "load_error"
       /\ run.message.kind = "error"
       /\ run.message.path = data_path
       /\ run.steps = {}
       /\ run.df = <<>> /\ run.df_filt = <<>> /\ ~run.chart.built

\* a run on the path of a file that is not there
C6_Witness ==
    /\ run.outcome = "load_error"
    /\ data_path = MISSING_PATH

\* C7: an empty view ends the run in a warning, not an error, with no chart;
\* from there a slider can still be moved, and a slider move after which some
\* cleaned row is selected ends in charts built from that non-empty view
C7_EmptyViewIsSoft ==
    /\ []( ( "filter" \in run.steps /\ run.df_filt = <<>> )
           => /\ run.outcome = "warning"
              /\ run.message.kind = "warning"
              /\ ~run.chart.built
              /\ YearMoves \cup DebtMoves # {} )
    /\ [][ ( /\ run.outcome = "warning"
             /\ data_path' = data_path
             /\ \E i \in 1..Len(run'.df) :
                   /\ run'.year_range[1] <= run'.df[i].year.v
                   /\ run'.df[i].year.v <= run'.year_range[2]
                   /\ run'.debt_range[1] <= run'.df[i].debt.v
                   /\ run'.df[i].debt.v <= run'.debt_range[2] )
           => /\ run'.outcome = "charts"
              /\ run'.chart.built
              /\ run'.chart.data = run'.df_filt
              /\ run'.df_filt # <<>> ]_vars

\* a warning on a well-formed selection from which one slider move leads to charts
C7_Witness ==
    /\ run.outcome = "warning"
    /\ run.year_range[1] <= run.year_range[2]
    /\ \E m \in YearMoves :
          \E r \in Runs(data_path, <<run.min_year, run.max_year, run.year_default, m>>, DebtWidget(run)) :
             r.outcome = "charts"

\* C8: a run whose file loads and whose two columns resolve ends in the
\* empty-view warning or in charts
C8_ResolvedRunNeverFails ==
    ( "resolve" \in run.steps /\ Unresolved = {} )
    => run.outcome \in {"warning", "charts"}

\* C9 as stated: cleaned rows with equal years stand in input order, and every
\* input row whose cells parse is kept
C9_StableSort ==
    "clean" \in run.steps
    => /\ \A i, j \in 1..Len(run.df) :
             ( i < j /\ run.df[i].year.v = run.df[j].year.v ) => run.df[i].idx < run.df[j].idx
       /\ {run.df[i].idx : i \in 1..Len(run.df)} = ValidLabels

\* C9 amended: every input row whose cells parse is in the cleaned set exactly
\* once, rows with a year that other rows share included; nothing is said about
\* the order of rows with equal years
C9_DuplicateYearsKept ==
    "clean" \in run.steps
    => /\ Len(run.df) = Cardinality(ValidLabels)
       /\ \A l \in ValidLabels : \E i \in 1..Len(run.df) : run.df[i].idx = l

\* a cleaned set with two rows of the same year
C9_Witness ==
    /\ "clean" \in run.steps
    /\ \E i, j \in 1..Len(run.df) : i # j /\ run.df[i].year.v = run.df[j].year.v

\* C10: the initial selection handed to the year slider lies inside the slider's
\* bounds and is ordered: min_year <= lo <= hi <= max_year
C10_DefaultYearRangeWithinBounds ==
    "sliders" \in run.steps
    => /\ run.min_year <= run.year_default[1]
       /\ run.year_default[1] <= run.year_default[2]
       /\ run.year_default[2] <= run.max_year
====
